---------------------------- MODULE Spec2Model ----------------------------
(***************************************************************************)
(* A model of the disentanglement-metrics core of odin                     *)
(* (odin/bay/vi/metrics.py) and of the algorithm-name dispatchers of       *)
(* odin/ml/__init__.py.                                                    *)
(*                                                                         *)
(* One behaviour is one call of one public function.  Init draws the       *)
(* function called and its inputs; the actions are the steps of that call. *)
(* The two functions that fan per-factor jobs out to a worker pool         *)
(* (mutual_info_estimate, representative_importance_matrix) are modelled   *)
(* step by step: dispatch, job completion, assembly of one result, return. *)
(* The pure dispatchers are modelled as one action that applies an         *)
(* operator computing the call's outcome.                                  *)
(*                                                                         *)
(* Numeric results of the external estimators (scikit-learn) are           *)
(* uninterpreted: a value is a record [kind, v] naming the estimator and   *)
(* the data it was computed from.                                          *)
(***************************************************************************)
EXTENDS Integers, Sequences, FiniteSets, TLC

(* ------------------------------ bounds -------------------------------- *)
\* largest number of factor columns of a call
MaxFactors == 2
\* largest number of CPU cores get_cpu_count() reports
MaxCores == 3
\* number of different contents a factor column can have
MaxCol == 2
\* longest algorithm name drawn from the alphabet NameChars
MaxNameLen == 2

\* seeds a caller passes are 1..MaxSeed
MaxSeed == 2

\* most columns of a code matrix
MaxCodes == 2

\* how many of the columns of Catalogue a label matrix draws from
MaxData == 4

\* the cells of an importance matrix are 0..MaxWeight
MaxWeight == 1
\* the most samples and the most classes of a one-hot matrix of factors
MaxSamples == 2
MaxClasses == 3

\* a session on NNOps performs at most MaxOperations operations
MaxOperations == 4

\* at most MaxTransposed transposed ops are constructed from one op
MaxTransposed == 2

\* at most MaxDepth scopes lie on the bottom scope of the stack
MaxDepth == 2

\* auto_config is called at most MaxCalls times
MaxCalls == 3

\* config.py line 114: the seed when none is given
DefaultConfigSeed == 1208251813

\* metrics.py line 57: the default of the parameter seed
DefaultSeed == 1

VARIABLES
  call,               \* the public function this behaviour calls
  pc,                 \* "called" | "running" | "scoring" | "returned" | "failed"
  factors,            \* factors[j]: the content of factor column j
  rows_match,         \* representations and factors have equal row counts
  algo_ok,            \* algo has the attribute feature_importances_
  cpu_count,          \* what get_cpu_count() returns
  fate,               \* fate[j]: what the estimator does on column j
  ncpu,               \* size of the worker pool of this call
  jobs,               \* MPI: the jobs not dispatched yet, in list order
  working,            \* MPI: the jobs a worker is computing
  results,            \* MPI: finished jobs' messages, not yet yielded
  dispatched,         \* dispatched[j]: how often job j was given to a worker
  mi_matrix,          \* mutual_info_estimate: column j of the MI matrix
  importance_matrix,  \* representative_importance_matrix: column j
  train_acc,          \* representative_importance_matrix: entry j
  test_acc,           \* representative_importance_matrix: entry j
  assembled,          \* the indices the loop body wrote, in arrival order
  failure,            \* the exception the caller sees, or NoFailure
  algo,               \* the algorithm name given, a sequence of characters
  outcome,            \* what a call of a dispatcher or pure function did
  seed,               \* the argument seed / random_state of the call
  seeded,             \* the estimators metrics.py created, with their seed
  codes,              \* codes[i]: the content of code column i
  matrix,             \* the importance matrix given to a DCI score
  ndim,               \* the number of dimensions of the labels given
  sign,               \* the sign of the importances the classifier reports
  ALL_NNOPS,          \* nnet/base.py __ALL_NNOPS: name -> the op registered
  op_name,            \* op_name[o]: the field _name of the NNOp o
  is_initialized,     \* is_initialized[o]: the field _is_initialized
  transpose_ops,      \* transpose_ops[o]: the field _transpose_ops
  input_desc,         \* input_desc[o]: the inputs o's configuration holds
  apply_calls,        \* apply_calls[o]: how often o.apply was called
  initialize_calls,   \* initialize_calls[o]: how often o._initialize ran
  ARGS_SCOPE_STACK,   \* nnet/base.py __ARGS_SCOPE_STACK
  blocks,             \* the arg_scope blocks entered and not left yet
  CONFIG,             \* config.py CONFIG
  RNG_GENERATOR,      \* config.py RNG_GENERATOR
  calls,              \* how many operations the session performed
  last                \* the last operation on odin.nnet or odin.config

\* the state of the calls of odin.bay.vi.metrics
metrics == <<call, pc, factors, rows_match, algo_ok, cpu_count, fate, ncpu,
             jobs, working, results, dispatched, mi_matrix, importance_matrix,
             train_acc, test_acc, assembled, failure, algo, outcome, seed,
             seeded, codes, matrix, ndim, sign>>

\* the state of the NNOps
nnops == <<ALL_NNOPS, op_name, is_initialized, transpose_ops, input_desc,
           apply_calls, initialize_calls>>

\* the state of the argument scopes
scopes == <<ARGS_SCOPE_STACK, blocks>>

\* the state of the process configuration, and the length of the session
configuration == <<CONFIG, RNG_GENERATOR, calls>>

\* the state of odin.nnet.base and odin.config
nnet == <<nnops, scopes, configuration, last>>

vars == <<metrics, nnet>>

\* Python's None
None == <<"None", 0>>

\* the scope at the bottom of the stack, line 49: {}
EmptyScope == <<"{}", "{}">>

\* no operation was performed yet
NoOperation == [op |-> "none", self |-> None, args |-> None, result |-> None]

\* config.py line 79: CONFIG = None, written as a configuration object no
\* call creates
NoConfig == [id |-> 0, backend |-> "None", seed |-> 0]

\* config.py line 78: numpy.random.RandomState(), seeded by the system
Unseeded == [id |-> 0, seed |-> 0]

\* odin.nnet.base and odin.config as imported: lines 28 and 49 of base.py,
\* lines 78-79 of config.py; no NNOp was constructed
Imported ==
  /\ ALL_NNOPS = <<>>
  /\ op_name = <<>>
  /\ is_initialized = <<>>
  /\ transpose_ops = <<>>
  /\ input_desc = <<>>
  /\ apply_calls = <<>>
  /\ initialize_calls = <<>>
  /\ ARGS_SCOPE_STACK = <<EmptyScope>>
  /\ blocks = <<>>
  /\ CONFIG = NoConfig
  /\ RNG_GENERATOR = Unseeded
  /\ calls = 0
  /\ last = NoOperation

(* ------------------------------ helpers ------------------------------- *)
Range(s) == {s[i] : i \in 1..Len(s)}

max(a, b) == IF a >= b THEN a ELSE b

\* Python's list(range(n)) as a sequence
list_range(n) == [i \in 1..n |-> i - 1]

NoFailure == [exc |-> "none", job |-> -1]

Val(kind, v) == [kind |-> kind, v |-> v]

PoolCalls == {"mutual_info_estimate", "representative_importance_matrix",
              "dci_scores"}


(* ------------------------- strings as sequences ----------------------- *)
\* a Python str is the sequence of its characters
UpperLetters ==
  <<"A", "B", "C", "D", "E", "F", "G", "H", "I", "J", "K", "L", "M", "N",
    "O", "P", "Q", "R", "S", "T", "U", "V", "W", "X", "Y", "Z">>

LowerLetters ==
  <<"a", "b", "c", "d", "e", "f", "g", "h", "i", "j", "k", "l", "m", "n",
    "o", "p", "q", "r", "s", "t", "u", "v", "w", "x", "y", "z">>

Whitespace == {" "}

\* str.lower() on one character
LowerChar(c) ==
  IF \E i \in 1..Len(UpperLetters) : UpperLetters[i] = c
  THEN LowerLetters[CHOOSE i \in 1..Len(UpperLetters) : UpperLetters[i] = c]
  ELSE c

\* str.lower()
lower(s) == [i \in 1..Len(s) |-> LowerChar(s[i])]

\* str.strip(): without its leading and trailing whitespace
strip(s) ==
  LET keep == {i \in 1..Len(s) : s[i] \notin Whitespace}
  IN IF keep = {} THEN <<>>
     ELSE LET lo == CHOOSE i \in keep : \A k \in keep : i <= k
              hi == CHOOSE i \in keep : \A k \in keep : i >= k
          IN SubSeq(s, lo, hi)

\* Python's `sub in s` on strings
Contains(s, sub) ==
  \E i \in 0..(Len(s) - Len(sub)) : SubSeq(s, i + 1, i + Len(sub)) = sub

S_knn ==
  <<"k", "n", "n">>

S_gmm ==
  <<"g", "m", "m">>

S_both ==
  <<"b", "o", "t", "h">>

S_kmean ==
  <<"k", "m", "e", "a", "n">>

S_dbscan ==
  <<"d", "b", "s", "c", "a", "n">>

S_svm ==
  <<"s", "v", "m">>

S_lda ==
  <<"l", "d", "a">>

S_tree ==
  <<"t", "r", "e", "e">>

S_logistic ==
  <<"l", "o", "g", "i", "s", "t", "i", "c">>

S_gbt ==
  <<"g", "b", "t">>

\* the names the calls are tried on, beside the short names over NameChars
TestNames ==
  {<<"k", "n", "n">>,
   <<"g", "m", "m">>,
   <<"b", "o", "t", "h">>,
   <<"k", "m", "e", "a", "n">>,
   <<"d", "b", "s", "c", "a", "n">>,
   <<"s", "v", "m">>,
   <<"l", "d", "a">>,
   <<"t", "r", "e", "e">>,
   <<"l", "o", "g", "i", "s", "t", "i", "c">>,
   <<"g", "b", "t">>,
   <<"K", "N", "N">>,
   <<"B", "o", "t", "h">>,
   <<" ", "g", "m", "m">>,
   <<"K", "M", "e", "a", "n", "s", " ">>,
   <<"k", "m", "e", "a", "n", "s">>,
   <<"d", "b", "s", "c", "a", "n", "2">>,
   <<"D", "B", "S", "c", "a", "n">>,
   <<"s", "p", "e", "c", "t", "r", "a", "l">>,
   <<"S", "p", "e", "c", "t", "r", "a", "l">>,
   <<" ", "t", "s", "n", "e", " ">>,
   <<"G", "B", "T">>}

NameChars == {"k", "N", " ", "x"}

ShortNames ==
  UNION {[1..n -> NameChars] : n \in 0..MaxNameLen}

AlgoNames == TestNames \cup ShortNames

\* "Not support for prediction_algorithm: '%s'" % prediction_algorithm
UcsMessagePrefix ==
  <<"N", "o", "t", " ", "s", "u", "p", "p", "o", "r", "t", " ", "f", "o",
  "r", " ", "p", "r", "e", "d", "i", "c", "t", "i", "o", "n", "_", "a",
  "l", "g", "o", "r", "i", "t", "h", "m", ":", " ", "'">>

\* f"No support for linear classifier with name='{algo}'"
ClassifierMessagePrefix ==
  <<"N", "o", " ", "s", "u", "p", "p", "o", "r", "t", " ", "f", "o", "r",
  " ", "l", "i", "n", "e", "a", "r", " ", "c", "l", "a", "s", "s", "i",
  "f", "i", "e", "r", " ", "w", "i", "t", "h", " ", "n", "a", "m", "e",
  "=", "'">>

\* "No support for clustering algorithm with name: '%s'" % algo
ClusteringMessagePrefix ==
  <<"N", "o", " ", "s", "u", "p", "p", "o", "r", "t", " ", "f", "o", "r",
  " ", "c", "l", "u", "s", "t", "e", "r", "i", "n", "g", " ", "a", "l",
  "g", "o", "r", "i", "t", "h", "m", " ", "w", "i", "t", "h", " ", "n",
  "a", "m", "e", ":", " ", "'">>

Quote == <<"'">>

(* ----------------- external estimators (uninterpreted) ---------------- *)
\* sklearn mutual_info_classif / mutual_info_regression on one factor
\* column; sklearn returns max(0, estimate)
mutual_info(col) == Val("mi", col)

\* model.feature_importances_ after model.fit(repr_train, column), of the
\* sign the classifier reports
feature_importances(col) == Val("feat", sign * col)

\* mutant: the importances are taken as reported
np_abs_skipped(x) == x

\* np.abs of an estimate
np_abs(x) == Val(x.kind, IF x.v < 0 THEN 0 - x.v ELSE x.v)

\* np.mean(model.predict(repr_train) == column)
train_accuracy(col) == Val("train", col)

\* np.mean(model.predict(repr_test) == column)
test_accuracy(col) == Val("test", col)

(* --------------------- the per-factor closures ------------------------ *)
\* metrics.py func(idx): returns idx, mi
func(idx) == [kind |-> "result", idx |-> idx, mi |-> mutual_info(factors[idx])]

\* metrics.py _train(factor_idx): returns factor_idx, feat, train, test
_train(factor_idx) ==
  [kind |-> "result", idx |-> factor_idx,
   feat |-> np_abs(feature_importances(factors[factor_idx])),
   train |-> train_accuracy(factors[factor_idx]),
   test |-> test_accuracy(factors[factor_idx])]

\* mutant: the closure reads the column of the first factor, whatever its
\* argument
JobFuncFirstColumn(j) ==
  IF call = "mutual_info_estimate"
  THEN [func(0) EXCEPT !.idx = j]
  ELSE [_train(0) EXCEPT !.idx = j]

\* the closure handed to MPI by the function called
JobFunc(j) == IF call = "mutual_info_estimate" THEN func(j) ELSE _train(j)

\* the estimator the closure creates for factor j and the seed it passes:
\* line 197 mutual_info(..., random_state=random_state), line 292
\* algo(random_state=random_state); dci_scores hands its random_state on to
\* representative_importance_matrix (line 345)
JobEstimator(j) ==
  [model |-> IF call = "mutual_info_estimate" THEN "mutual_info" ELSE "algo",
   job |-> j, random_state |-> seed]

\* mutant: the floor of one worker is missing
PoolSizeNoFloor(n) == n - 1

\* ncpu=max(1, get_cpu_count() - 1)
PoolSize(n) == max(1, n - 1)

\* mutant: the first factor is listed a second time
JobListRepeat(n) == IF n = 0 THEN <<>> ELSE list_range(n) \o <<0>>

\* mutant: the last factor is left out
JobListShort(n) == list_range(max(0, n - 1))

\* jobs=list(range(num_factors))
JobList(n) == list_range(n)

(* ---------------------- dispatchers by name --------------------------- *)
PureCalls == {"unsupervised_clustering_scores", "linear_classifier",
              "clustering"}

NoOutcome ==
  [kind |-> "none", exc |-> "none", msg |-> <<>>, models |-> {},
   value |-> <<>>]

\* `raise exc(msg)`, after the models in `models` were created
Raise(exc, msg, models) ==
  [kind |-> "raise", exc |-> exc, msg |-> msg, models |-> models,
   value |-> <<>>]

\* `return value`, after the models in `models` were created
Returned(value, models) ==
  [kind |-> "return", exc |-> "none", msg |-> <<>>, models |-> models,
   value |-> value]

\* the names bound when the body of unsupervised_clustering_scores runs: its
\* parameters, and the imports and definitions of metrics.py.  Of the names
\* that `from odin.bay.vi.downstream_metrics import *` binds, the module's
\* __all__ lists three; unsupervised_clustering_accuracy (line 107) is taken
\* to be bound by it too.
UcsParameters == {"representations", "factors", "prediction_algorithm", "seed"}

MetricsModuleNames ==
  {"absolute_import", "division", "print_function", "warnings", "np", "sp",
   "KMeans", "GradientBoostingClassifier", "adjusted_mutual_info_score",
   "adjusted_rand_score", "mutual_info_score",
   "normalized_mutual_info_score", "silhouette_score", "entropy1D",
   "GaussianMixture", "catch_warnings_ignore", "MPI", "get_cpu_count",
   "separated_attr_predictability", "beta_vae_score", "factor_vae_score",
   "unsupervised_clustering_accuracy",
   "unsupervised_clustering_scores", "discrete_mutual_info",
   "discrete_entropy", "mutual_info_estimate", "mutual_info_gap",
   "disentanglement_score", "completeness_score",
   "representative_importance_matrix", "dci_scores", "relative_strength"}

\* whether reading `name` in the body finds a binding (else NameError)
UcsBound(name) == name \in UcsParameters \cup MetricsModuleNames

ScoreNames == {"ASW", "ARI", "NMI", "UCA"}

\* lines 103-108: the four scores of the clusters `model` predicted, each a
\* fraction num/den of an uninterpreted score
\* (line 104 passes `factors`, the labels given, to silhouette_score; the
\* other three compare `factors` with the prediction of `model`)
ClusteringScores(model) ==
  [m \in ScoreNames |->
     [num |-> <<IF m = "ASW" THEN Val(m, <<"factors", factors[0]>>)
                ELSE Val(m, <<"factors", factors[0], "factors_pred", model>>)>>,
      den |-> 1]]

\* line 98: {k: (v + score2[k]) / 2 for k, v in score1.items()}
MeanScores(score1, score2) ==
  [m \in DOMAIN score1 |->
     [num |-> score1[m].num \o score2[m].num, den |-> 2 * score1[m].den]]

\* metrics.py unsupervised_clustering_scores, from line 82 on; the arguments
\* of a call are evaluated before the callee runs
unsupervised_clustering_scores(prediction_algorithm) ==
  IF prediction_algorithm = S_knn
  THEN IF ~UcsBound("n_factors")
       THEN Raise("NameError", <<"n_factors">>, {})
       ELSE Returned(ClusteringScores("KMeans"), {"KMeans"})
  ELSE IF prediction_algorithm = S_gmm
  THEN IF ~UcsBound("n_factors")
       THEN Raise("NameError", <<"n_factors">>, {})
       ELSE Returned(ClusteringScores("GaussianMixture"), {"GaussianMixture"})
  ELSE IF prediction_algorithm = S_both
  THEN IF ~UcsBound("clustering_scores")
       THEN Raise("NameError", <<"clustering_scores">>, {})
       ELSE Returned(MeanScores(ClusteringScores("KMeans"),
                                ClusteringScores("GaussianMixture")),
                     {"KMeans", "GaussianMixture"})
  ELSE Raise("ValueError", UcsMessagePrefix \o prediction_algorithm \o Quote,
             {})

\* the estimators unsupervised_clustering_scores creates and the seed each
\* is given: lines 83 and 86 pass random_state=seed; the calls of lines 90-97
\* pass no seed, so that the callee's default applies
UcsEstimators(prediction_algorithm) ==
  IF prediction_algorithm \in {S_knn, S_gmm}
  THEN IF ~UcsBound("n_factors") THEN {}
       ELSE {[model |-> IF prediction_algorithm = S_knn
                        THEN "KMeans" ELSE "GaussianMixture",
              job |-> -1, random_state |-> seed]}
  ELSE IF prediction_algorithm = S_both
  THEN IF ~UcsBound("clustering_scores") THEN {}
       ELSE {[model |-> "KMeans", job |-> -1, random_state |-> DefaultSeed],
             [model |-> "GaussianMixture", job |-> -1,
              random_state |-> DefaultSeed]}
  ELSE {}

\* the classifier class each name of linear_classifier selects
ClassifierOf ==
  [n \in {S_svm, S_lda, S_knn, S_tree, S_logistic, S_gbt} |->
     CASE n = S_svm -> "LinearSVC"
       [] n = S_lda -> "LinearDiscriminantAnalysis"
       [] n = S_knn -> "KNeighborsClassifier"
       [] n = S_tree -> "DecisionTreeClassifier"
       [] n = S_logistic -> "LogisticRegression"
       [] n = S_gbt -> "GradientBoostingClassifier"]

\* ml/__init__.py linear_classifier: the model is created and fitted after
\* the chain of comparisons selected its class
linear_classifier(name) ==
  IF name \in DOMAIN ClassifierOf
  THEN Returned(ClassifierOf[name], {ClassifierOf[name]})
  ELSE Raise("ValueError", ClassifierMessagePrefix \o name \o Quote, {})

\* mutant: the name is stripped and not lower-cased
NormalizedNotLowered(name) == strip(name)

\* algo = str(algo).strip().lower()
NormalizedName(name) == lower(strip(name))

\* ml/__init__.py clustering: the first substring found selects the function
\* that creates and fits the model
clustering(name) ==
  LET a == NormalizedName(name)
  IN IF Contains(a, S_kmean) THEN Returned("fast_kmeans", {"fast_kmeans"})
     ELSE IF Contains(a, S_knn) THEN Returned("fast_knn", {"fast_knn"})
     ELSE IF Contains(a, S_dbscan) THEN Returned("fast_dbscan", {"fast_dbscan"})
     ELSE Raise("ValueError", ClusteringMessagePrefix \o a \o Quote, {})

\* the call of the dispatcher this behaviour calls
Dispatch(name) ==
  CASE call = "unsupervised_clustering_scores" ->
         unsupervised_clustering_scores(name)
    [] call = "linear_classifier" -> linear_classifier(name)
    [] call = "clustering" -> clustering(name)

(* ------------------------- pre-allocated outputs ---------------------- *)
\* np.empty(shape=(num_latents, num_factors)): the columns hold whatever the
\* allocator left there
EmptyColumns == {Val("empty", 0), Val("mi", 1)}

\* np.zeros(shape=[num_latents, num_factors])
ZeroColumn == Val("zeros", 0)

\* list(range(num_factors)): entry j holds the integer j
RangeEntry(j) == Val("range", j)

Idx(k) == 0..(k - 1)

(* -------------------------------- Init -------------------------------- *)
InitPool ==
  /\ Imported
  /\ call \in PoolCalls
  /\ pc = "called"
  /\ \E k \in 0..MaxFactors :
       /\ factors \in [Idx(k) -> 1..MaxCol]
       /\ fate \in [Idx(k) -> {"ok", "fail", "hang"}]
  /\ rows_match \in BOOLEAN
  \* the estimators reject inputs of inconsistent length
  /\ (~rows_match) => \A j \in DOMAIN fate : fate[j] = "fail"
  \* dci_scores leaves algo at its default, GradientBoostingClassifier
  /\ algo_ok \in (IF call = "representative_importance_matrix"
                  THEN BOOLEAN ELSE {TRUE})
  /\ cpu_count \in 1..MaxCores
  /\ ncpu = 0
  /\ jobs = <<>>
  /\ working = {}
  /\ results = <<>>
  /\ dispatched = [j \in DOMAIN factors |-> 0]
  /\ mi_matrix = <<>>
  /\ importance_matrix = <<>>
  /\ train_acc = <<>>
  /\ test_acc = <<>>
  /\ assembled = <<>>
  /\ failure = NoFailure
  /\ algo = <<>>
  /\ outcome = NoOutcome
  /\ seed \in 1..MaxSeed
  /\ seeded = {}
  /\ codes = <<>>
  /\ matrix = <<>>
  /\ ndim = 2
  \* any class with feature_importances_ may be given as algo
  /\ sign \in (IF call = "representative_importance_matrix"
               THEN {-1, 1} ELSE {1})

InitPure ==
  /\ Imported
  /\ call \in PureCalls
  /\ pc = "called"
  /\ algo \in AlgoNames
  /\ outcome = NoOutcome
  \* unsupervised_clustering_scores: the labels after line 81, and the seed
  /\ factors \in (IF call = "unsupervised_clustering_scores"
                  THEN [Idx(1) -> 1..MaxCol] ELSE {<<>>})
  /\ seed \in (IF call = "unsupervised_clustering_scores"
               THEN 1..MaxSeed ELSE {DefaultSeed})
  /\ seeded = {}
  /\ codes = <<>>
  /\ matrix = <<>>
  /\ ndim = 2
  /\ sign = 1
  /\ fate = <<>>
  /\ rows_match = TRUE
  /\ algo_ok = TRUE
  /\ cpu_count = 1
  /\ ncpu = 0
  /\ jobs = <<>>
  /\ working = {}
  /\ results = <<>>
  /\ dispatched = <<>>
  /\ mi_matrix = <<>>
  /\ importance_matrix = <<>>
  /\ train_acc = <<>>
  /\ test_acc = <<>>
  /\ assembled = <<>>
  /\ failure = NoFailure

Init == InitPool \/ InitPure

(* ------------------------------ actions ------------------------------- *)
num_factors == Cardinality(DOMAIN factors)

\* mutual_info_estimate up to the creation of MPI
MutualInfoEstimateCall ==
  /\ call = "mutual_info_estimate"
  /\ pc = "called"
  /\ pc' = "running"
  /\ \E e \in EmptyColumns : mi_matrix' = [j \in Idx(num_factors) |-> e]
  /\ ncpu' = PoolSize(cpu_count)
  /\ jobs' = JobList(num_factors)
  /\ UNCHANGED <<call, factors, rows_match, algo_ok, cpu_count, fate, working,
                 results, dispatched, importance_matrix, train_acc, test_acc,
                 assembled, failure, algo, outcome,
                 seed, seeded, codes, matrix, ndim, sign, nnet>>

\* representative_importance_matrix up to the creation of MPI, called
\* directly or by dci_scores (line 344)
ImportanceMatrixCall ==
  /\ call \in {"representative_importance_matrix", "dci_scores"}
  /\ pc = "called"
  /\ IF ~algo_ok
     THEN /\ pc' = "failed"
          /\ failure' = [exc |-> "AssertionError", job |-> -1]
          /\ UNCHANGED <<importance_matrix, train_acc, test_acc, ncpu, jobs>>
     ELSE /\ pc' = "running"
          /\ importance_matrix' = [j \in Idx(num_factors) |-> ZeroColumn]
          /\ train_acc' = [j \in Idx(num_factors) |-> RangeEntry(j)]
          /\ test_acc' = [j \in Idx(num_factors) |-> RangeEntry(j)]
          /\ ncpu' = PoolSize(cpu_count)
          /\ jobs' = JobList(num_factors)
          /\ UNCHANGED failure
  /\ UNCHANGED <<call, factors, rows_match, algo_ok, cpu_count, fate, working,
                 results, dispatched, mi_matrix, assembled, algo, outcome,
                 seed, seeded, codes, matrix, ndim, sign, nnet>>

\* MPI gives the next job of its list to a free worker
MPIDispatch ==
  /\ pc = "running"
  /\ jobs # <<>>
  /\ Cardinality(working) < ncpu
  /\ working' = working \cup {Head(jobs)}
  /\ jobs' = Tail(jobs)
  /\ dispatched' = [dispatched EXCEPT ![Head(jobs)] = @ + 1]
  /\ seeded' = seeded \cup {JobEstimator(Head(jobs))}
  /\ UNCHANGED <<call, pc, factors, rows_match, algo_ok, cpu_count, fate, ncpu,
                 results, mi_matrix, importance_matrix, train_acc, test_acc,
                 assembled, failure, algo, outcome, seed, codes, matrix, ndim, sign, nnet>>

\* a worker's call of the closure returns
JobFinish ==
  /\ pc = "running"
  /\ \E j \in working :
       /\ fate[j] = "ok"
       /\ working' = working \ {j}
       /\ results' = Append(results, JobFunc(j))
  /\ UNCHANGED <<call, pc, factors, rows_match, algo_ok, cpu_count, fate, ncpu,
                 jobs, dispatched, mi_matrix, importance_matrix, train_acc,
                 test_acc, assembled, failure, algo, outcome,
                 seed, seeded, codes, matrix, ndim, sign, nnet>>

\* a worker's call of the closure raises
JobFail ==
  /\ pc = "running"
  /\ \E j \in working :
       /\ fate[j] = "fail"
       /\ working' = working \ {j}
       /\ results' = Append(results, [kind |-> "error", idx |-> j])
  /\ UNCHANGED <<call, pc, factors, rows_match, algo_ok, cpu_count, fate, ncpu,
                 jobs, dispatched, mi_matrix, importance_matrix, train_acc,
                 test_acc, assembled, failure, algo, outcome,
                 seed, seeded, codes, matrix, ndim, sign, nnet>>

\* mutant: the loop counts the messages instead of unpacking the index
WriteIndexByArrival(r) == Len(assembled)

\* mutant: the loop writes every result to the first column
WriteIndexFirst(r) == 0

\* the i of `for i, mi in MPI(...)`: the index the message carries
WriteIndex(r) == r.idx

\* the body of the for loop over MPI, for the message r it yields
AssembleColumn(r) ==
  IF call = "mutual_info_estimate"
  THEN /\ mi_matrix' = [mi_matrix EXCEPT ![WriteIndex(r)] = r.mi]
       /\ UNCHANGED <<importance_matrix, train_acc, test_acc>>
  ELSE /\ importance_matrix' =
            [importance_matrix EXCEPT ![WriteIndex(r)] = r.feat]
       /\ train_acc' = [train_acc EXCEPT ![WriteIndex(r)] = r.train]
       /\ test_acc' = [test_acc EXCEPT ![WriteIndex(r)] = r.test]
       /\ UNCHANGED mi_matrix

Assemble ==
  /\ pc = "running"
  /\ results # <<>>
  /\ Head(results).kind = "result"
  /\ AssembleColumn(Head(results))
  /\ assembled' = Append(assembled, WriteIndex(Head(results)))
  /\ results' = Tail(results)
  /\ UNCHANGED <<call, pc, factors, rows_match, algo_ok, cpu_count, fate, ncpu,
                 jobs, working, dispatched, failure, algo, outcome,
                 seed, seeded, codes, matrix, ndim, sign, nnet>>

\* MPI hands a failed job to the iterating caller as an exception
MPIRaise ==
  /\ pc = "running"
  /\ results # <<>>
  /\ Head(results).kind = "error"
  /\ pc' = "failed"
  /\ failure' = [exc |-> "PerFactorComputationError", job |-> Head(results).idx]
  /\ results' = Tail(results)
  /\ UNCHANGED <<call, factors, rows_match, algo_ok, cpu_count, fate, ncpu,
                 jobs, working, dispatched, mi_matrix, importance_matrix,
                 train_acc, test_acc, assembled, algo, outcome,
                 seed, seeded, codes, matrix, ndim, sign, nnet>>

\* the iteration over MPI ends and the function returns its matrices
Return ==
  /\ pc = "running"
  /\ jobs = <<>>
  /\ working = {}
  /\ results = <<>>
  /\ pc' = IF call = "dci_scores" THEN "scoring" ELSE "returned"
  /\ UNCHANGED <<call, factors, rows_match, algo_ok, cpu_count, fate, ncpu,
                 jobs, working, results, dispatched, mi_matrix,
                 importance_matrix, train_acc, test_acc, assembled, failure, algo, outcome,
                 seed, seeded, codes, matrix, ndim, sign, nnet>>

\* one call of unsupervised_clustering_scores, linear_classifier or
\* clustering with the name algo
DispatchCall ==
  /\ call \in PureCalls
  /\ pc = "called"
  /\ outcome' = Dispatch(algo)
  /\ pc' = IF outcome'.kind = "raise" THEN "failed" ELSE "returned"
  /\ failure' = IF outcome'.kind = "raise"
                THEN [exc |-> outcome'.exc, job |-> -1]
                ELSE NoFailure
  /\ UNCHANGED <<call, factors, rows_match, algo_ok, cpu_count, fate, ncpu,
                 jobs, working, results, dispatched, mi_matrix,
                 importance_matrix, train_acc, test_acc, assembled, algo,
                 seed, codes, matrix, ndim, sign, nnet>>
  /\ seeded' = IF call = "unsupervised_clustering_scores"
               THEN UcsEstimators(algo) ELSE seeded

\* mutant: informativeness is taken from the training accuracy
DciValueTrain(importance, train, test) ==
  <<Val("disentanglement_score", importance),
    Val("completeness_score", importance), Val("mean", train)>>

\* dci_scores lines 346-352: d, c, i from the importance matrix and the
\* accuracies; the scores of an uninterpreted matrix are uninterpreted
DciValue(importance, train, test) ==
  <<Val("disentanglement_score", importance),
    Val("completeness_score", importance), Val("mean", test)>>

\* dci_scores after representative_importance_matrix returned
DciScores ==
  /\ call = "dci_scores"
  /\ pc = "scoring"
  /\ outcome' = Returned(DciValue(importance_matrix, train_acc, test_acc), {})
  /\ pc' = "returned"
  /\ UNCHANGED <<call, factors, rows_match, algo_ok, cpu_count, fate, ncpu,
                 jobs, working, results, dispatched, mi_matrix,
                 importance_matrix, train_acc, test_acc, assembled, failure,
                 algo, seed, seeded, codes, matrix, ndim, sign, nnet>>

Next ==
  \/ DispatchCall
  \/ DciScores
  \/ MutualInfoEstimateCall
  \/ ImportanceMatrixCall
  \/ MPIDispatch
  \/ JobFinish
  \/ JobFail
  \/ Assemble
  \/ MPIRaise
  \/ Return

Spec == Init /\ [][Next]_vars

\* workers and the coordinator keep running: an enabled step is taken
FairSpec == Spec /\ WF_vars(Next)


(* ------------------- exact arithmetic with logarithms ------------------ *)
\* The numbers the label measures take are rational combinations of the
\* natural logarithms of primes; these are linearly independent over the
\* rationals, so two such numbers are equal exactly when their coefficient
\* vectors are.  A vector c over Primes stands for the sum of c[q] * ln(Primes[q]).
Primes == <<2, 3, 5, 7>>

\* ln(Primes[q]) in millionths, used to order numbers only
LogMicro == <<693147, 1098612, 1609438, 1945910>>

ZeroVec == <<0, 0, 0, 0>>

VAdd(a, b) == <<a[1] + b[1], a[2] + b[2], a[3] + b[3], a[4] + b[4]>>

VSub(a, b) == <<a[1] - b[1], a[2] - b[2], a[3] - b[3], a[4] - b[4]>>

VScale(t, a) == <<t * a[1], t * a[2], t * a[3], t * a[4]>>

RECURSIVE Exponent(_, _)
\* the exponent of the prime p in m >= 1
Exponent(p, m) == IF m % p = 0 THEN 1 + Exponent(p, m \div p) ELSE 0

\* ln(m) for m >= 1 a product of Primes
LogVec(m) ==
  <<Exponent(Primes[1], m), Exponent(Primes[2], m), Exponent(Primes[3], m),
    Exponent(Primes[4], m)>>

\* m * ln(m), with 0 * ln(0) = 0
XLogX(m) == IF m = 0 THEN ZeroVec ELSE VScale(m, LogVec(m))

RECURSIVE SumVec(_, _)
\* the sum of the vectors f[x], x in S
SumVec(S, f) ==
  IF S = {} THEN ZeroVec
  ELSE LET x == CHOOSE y \in S : TRUE
       IN VAdd(f[x], SumVec(S \ {x}, f))

RECURSIVE SumInt(_, _)
\* the sum of the integers f[0], ..., f[n-1]
SumInt(f, n) == IF n = 0 THEN 0 ELSE f[n - 1] + SumInt(f, n - 1)

\* a number c/n: the vector c over the count n
LV(n, c) == [n |-> n, c |-> c]

\* a - b for numbers over the same count
LVSub(a, b) == LV(a.n, VSub(a.c, b.c))

\* an integer that orders the numbers over one count as the reals do
Key(x) ==
  x.c[1] * LogMicro[1] + x.c[2] * LogMicro[2] + x.c[3] * LogMicro[3]
    + x.c[4] * LogMicro[4]

(* --------------------------- label columns ---------------------------- *)
\* the label columns the inputs are made of: four samples each
Catalogue ==
  << <<0, 0, 0, 0>>, <<0, 0, 1, 1>>, <<0, 0, 0, 1>>, <<0, 1, 1, 2>>,
     <<0, 1, 0, 1>>, <<1, 1, 0, 0>>, <<0, 1, 2, 3>> >>

\* the labels of the column with content c
Data(c) == Catalogue[c]

\* how often the label v occurs in the column
Count(col, v) == Cardinality({r \in DOMAIN col : col[r] = v})

\* the cell (x, y) of the contingency table of two columns
Joint(a, b, x, y) == Cardinality({r \in DOMAIN a : a[r] = x /\ b[r] = y})

\* whether the column holds a single unique value
SingleValued(col) == Cardinality(Range(col)) = 1

\* mutant: the entropy is not divided by the number of samples
entropy1D_unnormalised(labels) ==
  LET vals == Range(labels)
  IN LV(1, VSub(XLogX(Len(labels)),
                SumVec(vals, [v \in vals |-> XLogX(Count(labels, v))])))

\* sklearn.metrics.cluster.entropy: -sum((pi/n) * (log(pi) - log(n))) over
\* the counts pi of the labels
entropy1D(labels) ==
  LET vals == Range(labels)
  IN LV(Len(labels),
        VSub(XLogX(Len(labels)),
             SumVec(vals, [v \in vals |-> XLogX(Count(labels, v))])))

\* mutant: the joint entropy of the two labelings
mutual_info_score_joint(labels_true, labels_pred) ==
  LET cells == Range(labels_true) \X Range(labels_pred)
  IN LV(Len(labels_true),
        VSub(XLogX(Len(labels_true)),
             SumVec(cells, [xy \in cells |->
                       XLogX(Joint(labels_true, labels_pred,
                                   xy[1], xy[2]))])))

\* sklearn.metrics.mutual_info_score: the sum over the cells nxy of the
\* contingency table of (nxy/n) * log(n * nxy / (nx * ny))
mutual_info_score(labels_true, labels_pred) ==
  LET A == Range(labels_true)
      B == Range(labels_pred)
      cells == A \X B
  IN LV(Len(labels_true),
        VSub(VAdd(SumVec(cells, [xy \in cells |->
                            XLogX(Joint(labels_true, labels_pred,
                                        xy[1], xy[2]))]),
                  XLogX(Len(labels_true))),
             VAdd(SumVec(A, [x \in A |-> XLogX(Count(labels_true, x))]),
                  SumVec(B, [y \in B |-> XLogX(Count(labels_pred, y))]))))

(* ------------------ discrete mutual information, MIG ------------------ *)
\* mutant: every code is paired with the first factor
discrete_mutual_info_first(codes_, factors_) ==
  [i \in DOMAIN codes_ |->
     [j \in DOMAIN factors_ |->
        mutual_info_score(Data(factors_[0]), Data(codes_[i]))]]

\* metrics.py discrete_mutual_info, lines 129-136, for 2-D inputs
discrete_mutual_info(codes_, factors_) ==
  [i \in DOMAIN codes_ |->
     [j \in DOMAIN factors_ |->
        mutual_info_score(Data(factors_[j]), Data(codes_[i]))]]

\* "Only support 1-D or 2-D array for labels entropy."
EntropyMessage == <<"Only support 1-D or 2-D array for labels entropy.">>

\* metrics.py discrete_entropy, lines 150-158; labels of nd dimensions
discrete_entropy(labels, nd) ==
  IF nd = 1 THEN Returned(entropy1D(Data(labels[0])), {})
  ELSE IF nd > 2 THEN Raise("ValueError", EntropyMessage, {})
  ELSE Returned([j \in DOMAIN labels |-> entropy1D(Data(labels[j]))], {})

\* s without its i-th element
Remove(s, i) == SubSeq(s, 1, i - 1) \o SubSeq(s, i + 1, Len(s))

RECURSIVE SortAsc(_)
\* np.sort of a sequence of numbers: ascending
SortAsc(s) ==
  IF s = <<>> THEN <<>>
  ELSE LET i == CHOOSE a \in DOMAIN s :
                  \A b \in DOMAIN s : Key(s[a]) <= Key(s[b])
       IN <<s[i]>> \o SortAsc(Remove(s, i))

RECURSIVE ColumnOf(_, _, _)
\* m[0, j], ..., m[d-1, j] as a sequence
ColumnOf(m, j, d) ==
  IF d = 0 THEN <<>> ELSE Append(ColumnOf(m, j, d - 1), m[d - 1][j])

\* mutant: the column is not sorted
SortedColumnUnsorted(col) == col

\* mutant: the sorted column is not reversed
SortedColumnAscending(col) == SortAsc(col)

\* line 229: np.sort(m, axis=0)[::-1], for one column of m: its numbers in
\* descending order
SortedColumn(col) ==
  LET asc == SortAsc(col)
  IN [i \in DOMAIN col |-> asc[Len(col) + 1 - i]]

\* "index 1 is out of bounds for axis 0 with size 1"
IndexMessage == <<"index 1 is out of bounds for axis 0 with size 1">>

\* mutant: a missing second row of sorted_m counts as zero
mutual_info_gap_padded(representations, factors_) ==
  LET m == discrete_mutual_info(representations, factors_)
      d == Cardinality(DOMAIN representations)
      entropy_ == discrete_entropy(factors_, 2).value
  IN Returned([j \in DOMAIN factors_ |->
                 LET sorted_m == SortedColumn(ColumnOf(m, j, d))
                 IN [num |-> IF d < 2 THEN sorted_m[1]
                             ELSE LVSub(sorted_m[1], sorted_m[2]),
                     den |-> entropy_[j]]], {})

\* metrics.py mutual_info_gap, lines 226-232: the mean over the factors of
\* the fractions num/den; np.divide and np.mean are kept symbolic
mutual_info_gap(representations, factors_) ==
  LET m == discrete_mutual_info(representations, factors_)
      d == Cardinality(DOMAIN representations)
      entropy_ == discrete_entropy(factors_, 2).value
  IN IF d < 2
     THEN Raise("IndexError", IndexMessage, {})
     ELSE Returned([j \in DOMAIN factors_ |->
                      LET sorted_m == SortedColumn(ColumnOf(m, j, d))
                      IN [num |-> LVSub(sorted_m[1], sorted_m[2]),
                          den |-> entropy_[j]]], {})

(* ------------------ disentanglement and completeness ------------------ *)
\* A score is the number (num / (scale * den)), num and den being vectors
\* over Primes; the 1e-11 added to every cell is taken in the limit 0, which
\* leaves a row of zeros uniform.
Frac(num, den, scale) == [num |-> num, den |-> den, scale |-> scale]

\* x * (q.num / q.den)
FracTimes(x, q) == Frac(VScale(q.num, x.num), x.den, x.scale * q.den)

\* a + b, for a and b over the same den
FracAdd(a, b) ==
  Frac(VAdd(VScale(b.scale, a.num), VScale(a.scale, b.num)), a.den,
       a.scale * b.scale)

RECURSIVE FracSum(_, _)
\* np.sum of the n >= 1 numbers f[0], ..., f[n-1]
FracSum(f, n) ==
  IF n = 1 THEN f[0] ELSE FracAdd(FracSum(f, n - 1), f[n - 1])

\* 0/0, as dividing by the logarithm of base 1 gives
IsNaN(x) == x.den = ZeroVec \/ x.scale = 0

IsZero(x) == ~IsNaN(x) /\ x.num = ZeroVec

IsOne(x) == ~IsNaN(x) /\ x.num = VScale(x.scale, x.den)

\* the sum of a row of k cells
RowSum(row) == SumInt(row, Cardinality(DOMAIN row))

\* importance_matrix.sum()
Total(m) == SumInt([i \in DOMAIN m |-> RowSum(m[i])], Cardinality(DOMAIN m))

\* the matrix seen along axis 0: row j holds column j
Transpose(m) == [j \in DOMAIN m[0] |-> [i \in DOMAIN m |-> m[i][j]]]

\* the natural entropy scipy.stats.entropy gives a row + 1e-11 after it
\* normalised the row to sum 1
RowEntropy(row) ==
  IF RowSum(row) = 0 THEN LV(1, LogVec(Cardinality(DOMAIN row)))
  ELSE LV(RowSum(row),
          VSub(XLogX(RowSum(row)),
               SumVec(DOMAIN row, [j \in DOMAIN row |-> XLogX(row[j])])))

\* mutant: the entropy itself, not one minus it
per_code_entropy(row, base) ==
  Frac(RowEntropy(row).c, LogVec(base), RowEntropy(row).n)

\* line 241 / 255: 1. - sp.stats.entropy(row + 1e-11, base=base)
per_code(row, base) ==
  Frac(VSub(VScale(RowEntropy(row).n, LogVec(base)), RowEntropy(row).c),
       LogVec(base), RowEntropy(row).n)

\* mutant: the matrix is kept when it sums to zero
WeightMatrixKept(m) == m

\* lines 244-245 / 258-259: a matrix summing to zero is replaced by ones
WeightMatrix(m) ==
  IF Total(m) = 0
  THEN [i \in DOMAIN m |-> [j \in DOMAIN m[i] |-> 1]]
  ELSE m

\* lines 246-249: the rows' shares of the total importance, and the sum of
\* per_code * code_importance
disentanglement_score(m) ==
  LET d == Cardinality(DOMAIN m)
      k == Cardinality(DOMAIN m[0])
      w == WeightMatrix(m)
      code_importance == [i \in DOMAIN m |->
                            [num |-> RowSum(w[i]), den |-> Total(w)]]
  IN [score |-> FracSum([i \in DOMAIN m |->
                           FracTimes(per_code(m[i], k), code_importance[i])],
                        d),
      weights |-> code_importance]

\* lines 252-263: the same along axis 0, with base importance_matrix.shape[0]
completeness_score(m) == disentanglement_score(Transpose(m))

(* -------------------------- relative strength ------------------------- *)
\* the rational num/den, den > 0
Rat(num, den) ==
  IF den < 0 THEN [num |-> 0 - num, den |-> 0 - den]
  ELSE [num |-> num, den |-> den]

RatAdd(a, b) == Rat(a.num * b.den + b.num * a.den, a.den * b.den)

RatEq(a, b) == a.num * b.den = b.num * a.den

RECURSIVE MaxInt(_, _)
\* np.max of the integers f[0], ..., f[n-1], n >= 1
MaxInt(f, n) ==
  IF n = 1 THEN f[0] ELSE max(MaxInt(f, n - 1), f[n - 1])

\* a float: a rational, NaN, or +inf
Finite(q) == [kind |-> "finite", q |-> q]

\* np.power(max, 2) / sum with float division: 0/0 is NaN, x/0 is inf
Divide(num, den) ==
  IF den # 0 THEN Finite(Rat(num, den))
  ELSE IF num = 0 THEN [kind |-> "nan", q |-> Rat(0, 1)]
  ELSE [kind |-> "inf", q |-> Rat(0, 1)]

\* np.nan_to_num(x, nan=0.0): NaN becomes 0.0 and, posinf being left at its
\* default, inf becomes the largest finite float
nan_to_num(x) ==
  IF x.kind = "nan" THEN Finite(Rat(0, 1))
  ELSE IF x.kind = "inf" THEN [kind |-> "huge", q |-> Rat(0, 1)]
  ELSE x

\* mutant: the maximum is not squared
StrengthNotSquared(row) ==
  nan_to_num(Divide(MaxInt(row, Cardinality(DOMAIN row)), RowSum(row)))

\* lines 363-364: nan_to_num(np.power(np.max(row), 2) / np.sum(row)), for
\* one row (axis=1) or one column (axis=0)
Strength(row) ==
  nan_to_num(Divide(MaxInt(row, Cardinality(DOMAIN row))
                      * MaxInt(row, Cardinality(DOMAIN row)),
                    RowSum(row)))

RECURSIVE SumFinite(_, _)
\* the sum of the finite ones of the floats t[0], ..., t[n-1]
SumFinite(t, n) ==
  IF n = 0 THEN Rat(0, 1)
  ELSE IF t[n - 1].kind = "finite"
  THEN RatAdd(SumFinite(t, n - 1), t[n - 1].q)
  ELSE SumFinite(t, n - 1)

\* np.mean of the floats t: `huge` of them are the largest float (two of
\* them add up to inf), the others have the mean q
AxisMean(t) ==
  LET n == Cardinality(DOMAIN t)
  IN [huge |-> Cardinality({i \in DOMAIN t : t[i].kind = "huge"}),
      q |-> Rat(SumFinite(t, n).num, SumFinite(t, n).den * n),
      terms |-> t]

\* metrics.py relative_strength, lines 361-369
relative_strength(mat) ==
  LET score_x == AxisMean([j \in DOMAIN mat[0] |-> Strength(Transpose(mat)[j])])
      score_y == AxisMean([i \in DOMAIN mat |-> Strength(mat[i])])
  IN [score_x |-> score_x, score_y |-> score_y,
      huge |-> score_x.huge + score_y.huge,
      q |-> Rat(RatAdd(score_x.q, score_y.q).num,
                RatAdd(score_x.q, score_y.q).den * 2)]

(* ------------------- labels of one-hot factors ------------------------ *)
RECURSIVE MinInt(_, _)
\* np.min of the integers f[0], ..., f[n-1], n >= 1
MinInt(f, n) ==
  IF n = 1 THEN f[0]
  ELSE IF f[n - 1] < MinInt(f, n - 1) THEN f[n - 1] ELSE MinInt(f, n - 1)

\* lines 78-80: (factors - vmin) / (vmax - vmin), vmin and vmax taken over
\* each column; a column that is constant becomes 0/0 = NaN
MinMaxNormalised(m) ==
  LET n == Cardinality(DOMAIN m)
      vmin == [j \in DOMAIN m[0] |-> MinInt(Transpose(m)[j], n)]
      vmax == [j \in DOMAIN m[0] |-> MaxInt(Transpose(m)[j], n)]
  IN [i \in DOMAIN m |->
        [j \in DOMAIN m[0] |-> Divide(m[i][j] - vmin[j], vmax[j] - vmin[j])]]

\* np.argmax of a row of floats: the first NaN if there is one, otherwise
\* the first of the largest entries
np_argmax(row) ==
  LET nans == {j \in DOMAIN row : row[j].kind = "nan"}
      tops == {j \in DOMAIN row :
                 \A l \in DOMAIN row :
                   row[j].q.num * row[l].q.den >= row[l].q.num * row[j].q.den}
      first(S) == CHOOSE j \in S : \A l \in S : j <= l
  IN IF nans # {} THEN first(nans) ELSE first(tops)

\* lines 77-81: the labels a 2-D matrix of factors is turned into
OneHotLabels(m) ==
  [i \in DOMAIN m |-> np_argmax(MinMaxNormalised(m)[i])]

(* ------------------- calls of the measure functions ------------------- *)
ScoreCalls == {"discrete_mutual_info", "discrete_entropy", "mutual_info_gap",
               "disentanglement_score", "completeness_score",
               "relative_strength", "unsupervised_clustering_scores"}

\* the 2-D label matrices of one to maxc columns
LabelMatrices(maxc) == UNION {[Idx(k) -> 1..MaxData] : k \in 1..maxc}

\* the correlation matrices: entries from -1 to 1 (line 359)
CorrelationMatrices ==
  UNION {[Idx(d) -> [Idx(k) -> {-1, 0, 1}]] :
           d \in 1..MaxCodes, k \in 1..MaxFactors}

\* the one-hot matrices of n samples and k classes: a single 1 in each row
OneHotMatrices ==
  UNION {[Idx(n) -> {r \in [Idx(k) -> {0, 1}] : RowSum(r) = 1}] :
           n \in 1..MaxSamples, k \in 1..MaxClasses}

\* the importance matrices of d codes and k factors
ImportanceMatrices ==
  UNION {[Idx(d) -> [Idx(k) -> 0..MaxWeight]] :
           d \in 1..MaxCodes, k \in 1..MaxFactors}

ScoreInit ==
  /\ Imported
  /\ call \in ScoreCalls
  /\ pc = "called"
  /\ ndim \in (IF call = "discrete_entropy" THEN 1..3 ELSE {2})
  /\ codes \in (IF call \in {"discrete_mutual_info", "mutual_info_gap"}
                THEN LabelMatrices(MaxCodes) ELSE {<<>>})
  /\ factors \in (IF call \in {"discrete_mutual_info", "mutual_info_gap"}
                  THEN LabelMatrices(MaxFactors)
                  ELSE IF call = "discrete_entropy"
                  THEN (IF ndim = 1 THEN [Idx(1) -> 1..MaxData]
                        ELSE LabelMatrices(MaxFactors))
                  ELSE {<<>>})
  /\ matrix \in (IF call \in {"disentanglement_score", "completeness_score"}
                 THEN ImportanceMatrices
                 ELSE IF call = "relative_strength" THEN CorrelationMatrices
                 ELSE IF call = "unsupervised_clustering_scores"
                 THEN OneHotMatrices
                 ELSE {<<>>})
  /\ outcome = NoOutcome
  /\ algo \in (IF call = "unsupervised_clustering_scores"
               THEN {S_knn, S_gmm, S_both} ELSE {<<>>})
  /\ seed = DefaultSeed
  /\ seeded = {}
  /\ sign = 1
  /\ fate = <<>>
  /\ rows_match = TRUE
  /\ algo_ok = TRUE
  /\ cpu_count = 1
  /\ ncpu = 0
  /\ jobs = <<>>
  /\ working = {}
  /\ results = <<>>
  /\ dispatched = <<>>
  /\ mi_matrix = <<>>
  /\ importance_matrix = <<>>
  /\ train_acc = <<>>
  /\ test_acc = <<>>
  /\ assembled = <<>>
  /\ failure = NoFailure

\* the call ends with `result`: a return or a raise
Finish(result) ==
  /\ pc = "called"
  /\ outcome' = result
  /\ pc' = IF result.kind = "raise" THEN "failed" ELSE "returned"
  /\ failure' = IF result.kind = "raise"
                THEN [exc |-> result.exc, job |-> -1]
                ELSE NoFailure
  /\ UNCHANGED <<call, factors, rows_match, algo_ok, cpu_count, fate, ncpu,
                 jobs, working, results, dispatched, mi_matrix,
                 importance_matrix, train_acc, test_acc, assembled, algo,
                 seed, seeded, codes, matrix, ndim, sign, nnet>>

DiscreteMutualInfoCall ==
  /\ call = "discrete_mutual_info"
  /\ Finish(Returned(discrete_mutual_info(codes, factors), {}))

DiscreteEntropyCall ==
  /\ call = "discrete_entropy"
  /\ Finish(discrete_entropy(factors, ndim))

MutualInfoGapCall ==
  /\ call = "mutual_info_gap"
  /\ Finish(mutual_info_gap(codes, factors))

DisentanglementScoreCall ==
  /\ call = "disentanglement_score"
  /\ Finish(Returned(disentanglement_score(matrix), {}))

CompletenessScoreCall ==
  /\ call = "completeness_score"
  /\ Finish(Returned(completeness_score(matrix), {}))

RelativeStrengthCall ==
  /\ call = "relative_strength"
  /\ Finish(Returned(relative_strength(matrix), {}))

\* unsupervised_clustering_scores given the 2-D one-hot factors `matrix`:
\* line 81 rebinds `factors` to the labels, then the body runs
UcsOneHotCall ==
  /\ call = "unsupervised_clustering_scores"
  /\ pc = "called"
  /\ factors' = OneHotLabels(matrix)
  /\ outcome' = unsupervised_clustering_scores(algo)
  /\ pc' = IF outcome'.kind = "raise" THEN "failed" ELSE "returned"
  /\ failure' = IF outcome'.kind = "raise"
                THEN [exc |-> outcome'.exc, job |-> -1]
                ELSE NoFailure
  /\ seeded' = UcsEstimators(algo)
  /\ UNCHANGED <<call, rows_match, algo_ok, cpu_count, fate, ncpu,
                 jobs, working, results, dispatched, mi_matrix,
                 importance_matrix, train_acc, test_acc, assembled, algo,
                 seed, codes, matrix, ndim, sign, nnet>>

ScoreNext ==
  \/ RelativeStrengthCall
  \/ UcsOneHotCall
  \/ DiscreteMutualInfoCall
  \/ DiscreteEntropyCall
  \/ MutualInfoGapCall
  \/ DisentanglementScoreCall
  \/ CompletenessScoreCall

\* one call of a measure function on inputs drawn from the bounded sets
ScoreSpec == ScoreInit /\ [][ScoreNext]_vars

\* the calls that return an importance matrix or a matrix of mutual
\* information
MatrixInit == InitPool \/ (ScoreInit /\ call = "discrete_mutual_info")

MatrixNext ==
  \/ MutualInfoEstimateCall
  \/ ImportanceMatrixCall
  \/ MPIDispatch
  \/ JobFinish
  \/ JobFail
  \/ Assemble
  \/ MPIRaise
  \/ Return
  \/ DciScores
  \/ DiscreteMutualInfoCall

MatrixSpec == MatrixInit /\ [][MatrixNext]_vars

(* --------------------- odin.nnet.base: the NNOps ---------------------- *)
\* the sessions: applying and transposing NNOps, entering and leaving
\* arg_scope blocks, calling auto_config
NNetCalls == {"NNOp", "arg_scope", "auto_config"}

\* the Dense ops the session constructed; <<d, k>> with k > 0 is the k-th
\* TransposeDense constructed from the Dense <<d, 0>>
DenseOps == {<<"dense1", 0>>, <<"dense2", 0>>}

\* the names the Dense ops are given; 'a_transpose' is 'a' + '_transpose'
OpNames == {<<"a">>, <<"a", "_transpose">>}

\* the input descriptions an op is applied to
Shapes == {<<"x", 0>>, <<"y", 0>>}

IsDense(o) == o[2] = 0

\* f with f[k] set to v, k being added to the domain if new
Put(f, k, v) == [x \in DOMAIN f \cup {k} |-> IF x = k THEN v ELSE f[x]]

\* lines 36-44, assign_new_nnops: the name is free
Assignable(o) == op_name[o] \notin DOMAIN ALL_NNOPS

\* mutant: initialization is repeated on every apply
InitializeAlways(o) == TRUE

\* line 557: `if not self._is_initialized`
InitializeNeeded(o) == ~is_initialized[o]

\* _initialize runs to its end: Dense._initialize (lines 670-676) creates
\* the parameters; NNTransposeOps._initialize (lines 635-639) raises unless
\* the original op is initialized. The message of the RuntimeError of line
\* 637 reads self._ops, an attribute no NNTransposeOps has, so __getattr__
\* (lines 523-527, 274-280) raises AttributeError instead
InitializeCompletes(o) == IsDense(o) \/ is_initialized[transpose_ops[o]]

\* NNOp.apply, lines 544-564, of the op o to the inputs X
Apply(o, X) ==
  /\ call = "NNOp"
  /\ calls < MaxOperations
  /\ calls' = calls + 1
  /\ apply_calls' = [apply_calls EXCEPT ![o] = @ + 1]
  /\ LET \* check_input_desc, lines 251-272: the first inputs are kept, and
         \* other inputs than these raise ValueError
         desc == IF input_desc[o] = None THEN X ELSE input_desc[o]
         checked == desc = X
         initializes == checked /\ InitializeNeeded(o)
         initialized == initializes /\ InitializeCompletes(o)
         assigned == initialized /\ Assignable(o)
     IN /\ input_desc' = [input_desc EXCEPT ![o] = desc]
        /\ initialize_calls' =
             IF initializes THEN [initialize_calls EXCEPT ![o] = @ + 1]
             ELSE initialize_calls
        /\ is_initialized' =
             IF initialized THEN [is_initialized EXCEPT ![o] = TRUE]
             ELSE is_initialized
        /\ ALL_NNOPS' =
             IF assigned THEN Put(ALL_NNOPS, op_name[o], o) ELSE ALL_NNOPS
        /\ last' = [op |-> "apply", self |-> o, args |-> X,
                    result |-> IF ~checked THEN "ValueError"
                               ELSE IF initializes /\ ~initialized
                               THEN "AttributeError"
                               ELSE IF initialized /\ ~assigned
                               THEN "RuntimeError"
                               ELSE "return"]
  /\ UNCHANGED <<metrics, op_name, transpose_ops, scopes, CONFIG,
                 RNG_GENERATOR>>

\* mutant: the transposed op is not cached
TransposeAlways(o) == TRUE

\* line 458: `if self._transpose_ops is None`
TransposeNeeded(o) == transpose_ops[o] = None

\* the TransposeDense ops constructed from the Dense op o
TransposedOf(o) == {t \in DOMAIN op_name : t[1] = o[1] /\ t[2] > 0}

\* NNOp.T, lines 455-464, with Dense._transpose (lines 666-668) and
\* NNTransposeOps.__init__ and ._transpose (lines 624-633)
Transpose_(o) ==
  /\ call = "NNOp"
  /\ calls < MaxOperations
  /\ calls' = calls + 1
  /\ IF ~TransposeNeeded(o)
     THEN /\ last' = [op |-> "T", self |-> o, args |-> None,
                      result |-> transpose_ops[o]]
          /\ UNCHANGED <<nnops>>
     ELSE IF ~IsDense(o)
     THEN \* NNTransposeOps._transpose returns the original op
          /\ last' = [op |-> "T", self |-> o, args |-> None,
                      result |-> transpose_ops[o]]
          /\ UNCHANGED <<nnops>>
     ELSE LET t == <<o[1], Cardinality(TransposedOf(o)) + 1>>
          IN /\ t[2] <= MaxTransposed
             /\ op_name' = Put(op_name, t, Append(op_name[o], "_transpose"))
             /\ is_initialized' = Put(is_initialized, t, FALSE)
             /\ input_desc' = Put(input_desc, t, None)
             /\ apply_calls' = Put(apply_calls, t, 0)
             /\ initialize_calls' = Put(initialize_calls, t, 0)
             /\ transpose_ops' = Put(Put(transpose_ops, t, o), o, t)
             /\ last' = [op |-> "T", self |-> o, args |-> None, result |-> t]
             /\ UNCHANGED ALL_NNOPS
  /\ UNCHANGED <<metrics, scopes, CONFIG, RNG_GENERATOR>>

(* ------------------- odin.nnet.base: argument scopes ------------------- *)
\* what arg_scope is given as applied_nnops: a string, a type, or something
\* that is none of the accepted kinds
AppliedNNOps == {<<"str", "Dense">>, <<"type", "Dense">>, <<"float", "1.0">>}

\* lines 101-102: a string or a type is taken as it is (pairs and dicts,
\* lines 103-111, are not drawn)
ScopeAccepted(ops) == ops[1] \in {"str", "type"}

\* what arg_scope is given as kwargs
ScopeKwargs == {"{}", "{num_units: 8}"}

\* line 117: `yield None` stands in no try block, so the exception of the
\* body leaves the generator there and line 118 does not run
LeftOnRaise(stack) == stack

\* `with arg_scope(ops, **kwargs):` up to the yield of line 117; a block
\* keeps the stack it was entered with and the scope it pushed
ScopeEnter(ops, kwargs) ==
  /\ call = "arg_scope"
  /\ Len(ARGS_SCOPE_STACK) <= MaxDepth
  /\ IF ScopeAccepted(ops)
     THEN /\ ARGS_SCOPE_STACK' = Append(ARGS_SCOPE_STACK, <<ops[2], kwargs>>)
          /\ blocks' = Append(blocks, [entered |-> ARGS_SCOPE_STACK,
                                       pushed |-> <<ops[2], kwargs>>])
          /\ last' = [op |-> "enter", self |-> None, args |-> <<ops, kwargs>>,
                      result |-> "yield"]
     ELSE /\ UNCHANGED scopes
          /\ last' = [op |-> "enter", self |-> None, args |-> <<ops, kwargs>>,
                      result |-> "ValueError"]
  /\ UNCHANGED <<metrics, nnops, configuration>>

\* the body of the innermost block ends: line 118 pops the stack
ScopeExit ==
  /\ call = "arg_scope"
  /\ blocks # <<>>
  /\ ARGS_SCOPE_STACK' = SubSeq(ARGS_SCOPE_STACK, 1, Len(ARGS_SCOPE_STACK) - 1)
  /\ blocks' = SubSeq(blocks, 1, Len(blocks) - 1)
  /\ last' = [op |-> "exit", self |-> None, args |-> blocks[Len(blocks)],
              result |-> ARGS_SCOPE_STACK[Len(ARGS_SCOPE_STACK)]]
  /\ UNCHANGED <<metrics, nnops, configuration>>

\* the body of the innermost block raises, and the exception is caught
\* outside this block
ScopeRaise ==
  /\ call = "arg_scope"
  /\ blocks # <<>>
  /\ ARGS_SCOPE_STACK' = LeftOnRaise(ARGS_SCOPE_STACK)
  /\ blocks' = SubSeq(blocks, 1, Len(blocks) - 1)
  /\ last' = [op |-> "raise", self |-> None, args |-> blocks[Len(blocks)],
              result |-> None]
  /\ UNCHANGED <<metrics, nnops, configuration>>

(* -------------------------- odin.config -------------------------------- *)
\* the settings auto_config reads from os.environ['ODIN'] (config is None,
\* lines 117-156) or from the object config (lines 157-164); ok is FALSE
\* when a flag has no valid pattern (lines 141-155)
Settings ==
  [source : {"environ"}, backend : {"theano", "tensorflow"},
   seed : 1..MaxSeed \cup {DefaultConfigSeed}, ok : BOOLEAN]
  \cup [source : {"config"}, backend : {"theano", "tensorflow", "mxnet"},
        seed : 1..MaxSeed, ok : {TRUE}]

\* mutant: an existing configuration is replaced
ConfiguredNever(c) == FALSE

\* line 100: `elif CONFIG is not None`
Configured(c) == c # NoConfig

\* lines 141-155 and 216-221: what the settings make auto_config raise
SettingsError(settings, importable) ==
  IF ~settings.ok THEN "ValueError"
  ELSE IF settings.backend \notin {"theano", "tensorflow"} THEN "ValueError"
  ELSE IF ~importable THEN "ImportError"
  ELSE "none"

\* auto_config, lines 82-237 (Python 2: the global statements of lines 227
\* and 235 hold for the whole body); the backend can be imported or not
AutoConfig(settings, check, importable) ==
  /\ call = "auto_config"
  /\ calls < MaxCalls
  /\ calls' = calls + 1
  /\ IF ~Configured(CONFIG) /\ check
     THEN /\ UNCHANGED <<CONFIG, RNG_GENERATOR>>
          /\ last' = [op |-> "auto_config", self |-> None,
                      args |-> <<settings, check>>,
                      result |-> [exc |-> "Exception", value |-> NoConfig]]
     ELSE IF Configured(CONFIG)
     THEN /\ UNCHANGED <<CONFIG, RNG_GENERATOR>>
          /\ last' = [op |-> "auto_config", self |-> None,
                      args |-> <<settings, check>>,
                      result |-> [exc |-> "none", value |-> CONFIG]]
     ELSE IF SettingsError(settings, importable) # "none"
     THEN /\ UNCHANGED <<CONFIG, RNG_GENERATOR>>
          /\ last' = [op |-> "auto_config", self |-> None,
                      args |-> <<settings, check>>,
                      result |-> [exc |-> SettingsError(settings, importable),
                                  value |-> NoConfig]]
     ELSE /\ CONFIG' = [id |-> calls + 1, backend |-> settings.backend,
                        seed |-> settings.seed]
          /\ RNG_GENERATOR' = [id |-> calls + 1, seed |-> settings.seed]
          /\ last' = [op |-> "auto_config", self |-> None,
                      args |-> <<settings, check>>,
                      result |-> [exc |-> "none", value |-> CONFIG']]
  /\ UNCHANGED <<metrics, nnops, scopes>>

(* ----------------------- sessions on odin.nnet ------------------------- *)
\* no function of odin.bay.vi.metrics is called
MetricsIdle ==
  /\ pc = "called"
  /\ factors = <<>>
  /\ rows_match = TRUE
  /\ algo_ok = TRUE
  /\ cpu_count = 1
  /\ fate = <<>>
  /\ ncpu = 0
  /\ jobs = <<>>
  /\ working = {}
  /\ results = <<>>
  /\ dispatched = <<>>
  /\ mi_matrix = <<>>
  /\ importance_matrix = <<>>
  /\ train_acc = <<>>
  /\ test_acc = <<>>
  /\ assembled = <<>>
  /\ failure = NoFailure
  /\ algo = <<>>
  /\ outcome = NoOutcome
  /\ seed = DefaultSeed
  /\ seeded = {}
  /\ codes = <<>>
  /\ matrix = <<>>
  /\ ndim = 2
  /\ sign = 1

\* the modules as imported and, in a session on NNOps, the Dense ops
\* constructed (NNOp.__init__, lines 404-418)
NNetInit ==
  /\ call \in NNetCalls
  /\ MetricsIdle
  /\ ALL_NNOPS = <<>>
  /\ op_name \in (IF call = "NNOp" THEN [DenseOps -> OpNames] ELSE {<<>>})
  /\ is_initialized = [o \in DOMAIN op_name |-> FALSE]
  /\ transpose_ops = [o \in DOMAIN op_name |-> None]
  /\ input_desc = [o \in DOMAIN op_name |-> None]
  /\ apply_calls = [o \in DOMAIN op_name |-> 0]
  /\ initialize_calls = [o \in DOMAIN op_name |-> 0]
  /\ ARGS_SCOPE_STACK = <<EmptyScope>>
  /\ blocks = <<>>
  /\ CONFIG = NoConfig
  /\ RNG_GENERATOR = Unseeded
  /\ calls = 0
  /\ last = NoOperation

NNetNext ==
  \/ \E o \in DOMAIN op_name : \E X \in Shapes : Apply(o, X)
  \/ \E o \in DOMAIN op_name : Transpose_(o)
  \/ \E ops \in AppliedNNOps : \E kwargs \in ScopeKwargs :
       ScopeEnter(ops, kwargs)
  \/ ScopeExit
  \/ ScopeRaise
  \/ \E settings \in Settings : \E check, importable \in BOOLEAN :
       AutoConfig(settings, check, importable)

NNetSpec == NNetInit /\ [][NNetNext]_vars

(* ------------------------------ claims -------------------------------- *)
\* what the call's outputs hold for factor j
Column(j) ==
  IF call = "mutual_info_estimate"
  THEN <<mi_matrix[j]>>
  ELSE <<importance_matrix[j], train_acc[j], test_acc[j]>>

\* what the estimators compute from factor column j
OwnValue(j) ==
  IF call = "mutual_info_estimate"
  THEN <<mutual_info(factors[j])>>
  ELSE <<np_abs(feature_importances(factors[j])), train_accuracy(factors[j]),
         test_accuracy(factors[j])>>

Allocated == call \in PoolCalls /\ pc \in {"running", "returned"}

\* C1: whatever the order in which the jobs complete, the slot of factor j
\* holds the value computed from factor column j, so what the call returns
\* is a function of its inputs alone.
C1_IndexKeyedAssembly ==
  call \in PoolCalls =>
    /\ \A j \in Range(assembled) : Column(j) = OwnValue(j)
    /\ pc = "returned" =>
         \A j \in Idx(num_factors) : Column(j) = OwnValue(j)

\* a call that returned after its jobs completed in another order than the
\* order of the factor indices, on columns of different content
C1_Witness ==
  /\ call \in PoolCalls
  /\ pc = "returned"
  /\ assembled = <<1, 0>>
  /\ factors[0] # factors[1]

C3_NoSilentPlaceholder ==
  call \in PoolCalls =>
    /\ pc = "returned" => Range(assembled) = Idx(num_factors)
    /\ (\E j \in Idx(num_factors) : j \notin Range(assembled)) =>
         pc # "returned"

\* a failed call of representative_importance_matrix with a slot that still
\* holds its placeholder
C3_Witness ==
  /\ call = "representative_importance_matrix"
  /\ pc = "failed"
  /\ failure.exc = "PerFactorComputationError"
  /\ \E j \in Idx(num_factors) :
       /\ j \notin Range(assembled)
       /\ importance_matrix[j] = ZeroColumn
       /\ train_acc[j] = RangeEntry(j)

\* the step assembles the message at the head of the results
AssembleStep ==
  /\ pc = "running" /\ pc' = "running"
  /\ assembled' # assembled

\* C4: every factor index is dispatched at most once, exactly once in a call
\* that returned, and assembling the result of factor j changes slot j only.
C4_DispatchOnceWriteOwn ==
  /\ [](call \in PoolCalls =>
          /\ \A j \in Idx(num_factors) : dispatched[j] <= 1
          /\ pc = "returned" =>
               \A j \in Idx(num_factors) : dispatched[j] = 1)
  /\ [][(call \in PoolCalls /\ AssembleStep) =>
          /\ Head(results).kind = "result"
          /\ assembled' = Append(assembled, Head(results).idx)
          /\ \A j \in Idx(num_factors) :
               j # Head(results).idx => Column(j)' = Column(j)]_vars

\* both factors were dispatched and the result of factor 1 was assembled
\* while the slot of factor 0 kept its placeholders
C4_Witness ==
  /\ call = "representative_importance_matrix"
  /\ pc = "running"
  /\ num_factors = 2
  /\ assembled = <<1>>
  /\ \A j \in Idx(num_factors) : dispatched[j] = 1
  /\ importance_matrix[0] = ZeroColumn
  /\ train_acc[0] = RangeEntry(0)
  /\ test_acc[0] = RangeEntry(0)
  /\ importance_matrix[1] = np_abs(feature_importances(factors[1]))

\* C5 as stated: the pool has get_cpu_count() - 1 workers and never fewer
\* than one.
C5_PoolIsCoresMinusOne ==
  Allocated => ncpu = cpu_count - 1 /\ ncpu >= 1

\* C5 amended: the pool has max(1, get_cpu_count() - 1) workers: one core is
\* left free when there are at least two, a single core gets one worker and
\* leaves none free, and the pool never has fewer than one worker.
C5_PoolSize ==
  Allocated =>
    /\ cpu_count >= 2 => ncpu = cpu_count - 1
    /\ cpu_count = 1 => ncpu = 1
    /\ ncpu >= 1

\* a call on a single core, with its one worker computing a job
C5_Witness ==
  /\ Allocated
  /\ cpu_count = 1
  /\ ncpu = 1
  /\ Cardinality(working) = 1

AllOk == \A j \in Idx(num_factors) : fate[j] = "ok"

SomeHang == \E j \in Idx(num_factors) : fate[j] = "hang"

NoFail == \A j \in Idx(num_factors) : fate[j] # "fail"

C7_RowMismatchFailsFirst ==
  (call \in PoolCalls /\ ~rows_match) =>
    /\ \A j \in Idx(num_factors) : dispatched[j] = 0
    /\ working = {}
    /\ pc # "returned"

\* the name matches none of the names the dispatcher called supports
Unsupported ==
  CASE call = "unsupervised_clustering_scores" ->
         algo \notin {S_knn, S_gmm, S_both}
    [] call = "linear_classifier" ->
         algo \notin {S_svm, S_lda, S_knn, S_tree, S_logistic, S_gbt}
    [] call = "clustering" ->
         \A n \in {S_kmean, S_knn, S_dbscan} :
           ~Contains(lower(strip(algo)), n)
    [] OTHER -> FALSE

Dispatched == call \in PureCalls /\ pc # "called"

\* C8 as stated: an unsupported name makes each of the three dispatchers
\* raise an error whose message contains the name as given, before any model
\* is created or fitted.
C8_MessageHasGivenName ==
  (Dispatched /\ Unsupported) =>
    /\ pc = "failed"
    /\ outcome.models = {}
    /\ Contains(outcome.msg, algo)

\* C8 amended: an unsupported name makes each of the three dispatchers raise
\* ValueError before any model is created or fitted; the message of
\* unsupervised_clustering_scores and of linear_classifier contains the name
\* as given, the message of clustering contains the name stripped of its
\* surrounding whitespace and lower-cased.
C8_UnknownNameRaises ==
  (Dispatched /\ Unsupported) =>
    /\ pc = "failed"
    /\ outcome.kind = "raise"
    /\ outcome.exc = "ValueError"
    /\ failure.exc = "ValueError"
    /\ outcome.models = {}
    /\ Contains(outcome.msg,
                IF call = "clustering" THEN lower(strip(algo)) ELSE algo)

\* clustering('Spectral') raised with a message that holds 'spectral' and
\* not 'Spectral'
C8_Witness ==
  /\ call = "clustering"
  /\ pc = "failed"
  /\ algo = <<"S", "p", "e", "c", "t", "r", "a", "l">>
  /\ Contains(outcome.msg, <<"s", "p", "e", "c", "t", "r", "a", "l">>)
  /\ ~Contains(outcome.msg, algo)

\* C9: unsupervised_clustering_scores called with 'knn', 'gmm' or 'both'
\* returns a result holding exactly the four scores ASW, ARI, NMI and UCA.
C9_ReturnsFourScores ==
  (call = "unsupervised_clustering_scores" /\ pc # "called"
     /\ algo \in {S_knn, S_gmm, S_both}) =>
    /\ pc = "returned"
    /\ outcome.kind = "return"
    /\ DOMAIN outcome.value = ScoreNames

\* C10: with 'both', each of the four scores returned is the mean of the
\* k-means score and of the Gaussian-mixture score of the same name.
C10_BothIsMean ==
  (call = "unsupervised_clustering_scores" /\ pc # "called"
     /\ algo = S_both) =>
    /\ outcome.kind = "return"
    /\ outcome.value = MeanScores(ClusteringScores("KMeans"),
                                  ClusteringScores("GaussianMixture"))

\* the silhouette score of the clusters `model` predicted, which reads the
\* representations and the predicted assignment only
SilhouetteOfPrediction(model) == Val("ASW", <<"factors_pred", model>>)

\* C11: the ASW unsupervised_clustering_scores returns is the silhouette
\* score of the representations and the predicted clusters only: the labels
\* given do not enter it.
C11_SilhouetteFromPrediction ==
  (call = "unsupervised_clustering_scores" /\ pc # "called"
     /\ algo \in {S_knn, S_gmm, S_both}) =>
    /\ outcome.kind = "return"
    /\ outcome.value["ASW"].num =
         IF algo = S_knn THEN <<SilhouetteOfPrediction("KMeans")>>
         ELSE IF algo = S_gmm
         THEN <<SilhouetteOfPrediction("GaussianMixture")>>
         ELSE <<SilhouetteOfPrediction("KMeans"),
                SilhouetteOfPrediction("GaussianMixture")>>

\* the clustering models a branch of unsupervised_clustering_scores fits
BranchModels(prediction_algorithm) ==
  IF prediction_algorithm = S_knn THEN {"KMeans"}
  ELSE IF prediction_algorithm = S_gmm THEN {"GaussianMixture"}
  ELSE {"KMeans", "GaussianMixture"}

\* C12: every estimator a call creates is given the seed of the call, and
\* unsupervised_clustering_scores seeds the clustering models of each of its
\* branches, 'both' included, with the seed it was given.
C12_SeedReachesEveryModel ==
  /\ \A e \in seeded : e.random_state = seed
  /\ (call = "unsupervised_clustering_scores" /\ pc # "called"
        /\ algo \in {S_knn, S_gmm, S_both}) =>
       seeded = {[model |-> m, job |-> -1, random_state |-> seed] :
                   m \in BranchModels(algo)}

\* C20: dci_scores returns (disentanglement, completeness, informativeness)
\* in this order, the informativeness being the mean over the factors of the
\* test accuracy of the factor's classifier.
C20_DciOrderAndTestAccuracy ==
  (call = "dci_scores" /\ pc = "returned") =>
    LET importance == [j \in Idx(num_factors) |->
                         np_abs(feature_importances(factors[j]))]
    IN /\ outcome.kind = "return"
       /\ Len(outcome.value) = 3
       /\ outcome.value[1] = Val("disentanglement_score", importance)
       /\ outcome.value[2] = Val("completeness_score", importance)
       /\ outcome.value[3] =
            Val("mean", [j \in Idx(num_factors) |->
                           test_accuracy(factors[j])])

\* dci_scores returned for two factors of different content
C20_Witness ==
  /\ call = "dci_scores"
  /\ pc = "returned"
  /\ outcome.kind = "return"
  /\ num_factors = 2
  /\ factors[0] # factors[1]

(* ------------------- claims on the measure functions ------------------ *)
\* the column of pairs (x[r], y[r])
PairColumn(x, y) == [r \in DOMAIN x |-> <<x[r], y[r]>>]

\* the mutual information of two columns from their entropies:
\* I(X;Y) = H(X) + H(Y) - H(X,Y)
ContingencyMI(x, y) ==
  LV(Len(x), VSub(VAdd(entropy1D(x).c, entropy1D(y).c),
                  entropy1D(PairColumn(x, y)).c))

\* C13: discrete_mutual_info of codes with d1 columns and factors with d2
\* columns returns a d1 x d2 matrix whose entry (i, j) is the mutual
\* information of code column i and factor column j.
C13_EntryIsColumnPairMI ==
  (call = "discrete_mutual_info" /\ pc # "called") =>
    /\ outcome.kind = "return"
    /\ DOMAIN outcome.value = DOMAIN codes
    /\ \A i \in DOMAIN codes :
         /\ DOMAIN outcome.value[i] = DOMAIN factors
         /\ \A j \in DOMAIN factors :
              outcome.value[i][j] =
                ContingencyMI(Data(codes[i]), Data(factors[j]))

\* a 2 x 2 matrix was returned that is not symmetric
C13_Witness ==
  /\ call = "discrete_mutual_info"
  /\ pc = "returned"
  /\ Cardinality(DOMAIN codes) = 2
  /\ num_factors = 2
  /\ outcome.value[0][1] # outcome.value[1][0]
  /\ outcome.value[0][0] # outcome.value[0][1]

\* C14: where code column i equals factor column j, entry (i, j) of
\* discrete_mutual_info is discrete_entropy of that factor column.
C14_SelfInformationIsEntropy ==
  (call = "discrete_mutual_info" /\ pc = "returned") =>
    \A i \in DOMAIN codes : \A j \in DOMAIN factors :
      Data(codes[i]) = Data(factors[j]) =>
        outcome.value[i][j] =
          discrete_entropy([x \in Idx(1) |-> factors[j]], 1).value

\* the second code column equals the first factor column, which holds more
\* than one value
C14_Witness ==
  /\ call = "discrete_mutual_info"
  /\ pc = "returned"
  /\ Cardinality(DOMAIN codes) = 2
  /\ Data(codes[1]) = Data(factors[0])
  /\ codes[0] # codes[1]
  /\ ~SingleValued(Data(factors[0]))
  /\ outcome.value[1][0].c # ZeroVec

\* C15: of a column holding a single unique value, discrete_entropy is
\* exactly 0, and so is the entry of discrete_mutual_info of every pair of
\* columns it is in.
C15_SingleValueGivesZero ==
  /\ (call = "discrete_entropy" /\ pc = "returned" /\ ndim = 1
        /\ SingleValued(Data(factors[0]))) =>
       outcome.value.c = ZeroVec
  /\ (call = "discrete_entropy" /\ pc = "returned" /\ ndim = 2) =>
       \A j \in DOMAIN factors :
         SingleValued(Data(factors[j])) => outcome.value[j].c = ZeroVec
  /\ (call = "discrete_mutual_info" /\ pc = "returned") =>
       \A i \in DOMAIN codes : \A j \in DOMAIN factors :
         (SingleValued(Data(codes[i])) \/ SingleValued(Data(factors[j]))) =>
           outcome.value[i][j].c = ZeroVec

\* a single-valued code column met a factor column that has entropy, next
\* to a code column that informs about that factor
C15_Witness ==
  /\ call = "discrete_mutual_info"
  /\ pc = "returned"
  /\ Cardinality(DOMAIN codes) = 2
  /\ SingleValued(Data(codes[0]))
  /\ ~SingleValued(Data(factors[0]))
  /\ outcome.value[0][0].c = ZeroVec
  /\ outcome.value[1][0].c # ZeroVec

\* the mutual information of every code column with factor column j, as a
\* sequence
MIColumn(j) ==
  ColumnOf([i \in DOMAIN codes |->
              [k \in {j} |-> ContingencyMI(Data(codes[i]), Data(factors[k]))]],
           j, Cardinality(DOMAIN codes))

\* an index of a largest number of f
ArgMax(f) == CHOOSE a \in DOMAIN f : \A b \in DOMAIN f : Key(f[a]) >= Key(f[b])

\* the largest number of f
Largest(f) == f[ArgMax(f)]

\* the largest number of f once one largest is taken away
SecondLargest(f) == Largest([b \in DOMAIN f \ {ArgMax(f)} |-> f[b]])

\* C16: mutual_info_gap returns the mean over the factors j of (the largest
\* minus the second largest mutual information of a code with factor j)
\* divided by the entropy of factor j.
C16_GapOfTwoLargest ==
  (call = "mutual_info_gap" /\ pc = "returned") =>
    /\ DOMAIN outcome.value = DOMAIN factors
    /\ \A j \in DOMAIN factors :
         outcome.value[j] =
           [num |-> LVSub(Largest(MIColumn(j)), SecondLargest(MIColumn(j))),
            den |-> entropy1D(Data(factors[j]))]

\* a gap was returned for two codes that inform differently about a factor
C16_Witness ==
  /\ call = "mutual_info_gap"
  /\ pc = "returned"
  /\ num_factors = 2
  /\ outcome.value[0].num.c # ZeroVec
  /\ outcome.value[0].den.c # ZeroVec
  /\ outcome.value[0] # outcome.value[1]

\* the bijections of S
ColumnOrders(S) == {f \in [S -> S] : \A a, b \in S : f[a] = f[b] => a = b}

\* C17: mutual_info_gap does the same whatever the order of the
\* representation columns.
C17_GapIgnoresColumnOrder ==
  (call = "mutual_info_gap" /\ pc # "called") =>
    \A f \in ColumnOrders(DOMAIN codes) :
      mutual_info_gap([i \in DOMAIN codes |-> codes[f[i]]], factors) = outcome

\* a gap was returned for two code columns the first of which informs less
\* about the first factor than the second
C17_Witness ==
  /\ call = "mutual_info_gap"
  /\ pc = "returned"
  /\ Cardinality(DOMAIN codes) = 2
  /\ Key(MIColumn(0)[1]) < Key(MIColumn(0)[2])
  /\ outcome.value[0].num.c # ZeroVec

DciCalls == {"disentanglement_score", "completeness_score"}

\* the base of the entropy of the call: the number of factors for
\* disentanglement_score, the number of codes for completeness_score
EntropyBase ==
  IF call = "disentanglement_score" THEN Cardinality(DOMAIN matrix[0])
  ELSE Cardinality(DOMAIN matrix)

\* every row (every column, for completeness_score) has the same weight
UniformWeights ==
  \A i \in DOMAIN outcome.value.weights :
    /\ outcome.value.weights[i].den > 0
    /\ outcome.value.weights[i].num
          * Cardinality(DOMAIN outcome.value.weights)
         = outcome.value.weights[i].den

\* C18 as stated: on an importance matrix that sums to zero,
\* disentanglement_score and completeness_score weigh uniformly and return
\* a number, never NaN.
C18_ZeroSumIsDefined ==
  (call \in DciCalls /\ pc = "returned" /\ Total(matrix) = 0) =>
    /\ UniformWeights
    /\ ~IsNaN(outcome.value.score)

\* C18, amended: on an importance matrix that sums to zero the scores weigh
\* uniformly; the score is a number, 0, when the entropy has a base of two
\* or more, and NaN when the base is 1.
C18_ZeroSumDefinedFromBaseTwo ==
  (call \in DciCalls /\ pc = "returned" /\ Total(matrix) = 0) =>
    /\ UniformWeights
    /\ EntropyBase >= 2 => IsZero(outcome.value.score)
    /\ EntropyBase = 1 => IsNaN(outcome.value.score)

\* disentanglement_score returned a number for a matrix of zeros with two
\* codes and two factors
C18_Witness ==
  /\ call = "disentanglement_score"
  /\ pc = "returned"
  /\ Cardinality(DOMAIN matrix) = 2
  /\ EntropyBase = 2
  /\ Total(matrix) = 0
  /\ ~IsNaN(outcome.value.score)

\* every cell holds the same importance
EqualCells(m) ==
  \A i, a \in DOMAIN m : \A j, b \in DOMAIN m[0] : m[i][j] = m[a][b]

\* d == k and code i has importance for factor i only
Diagonal(m) ==
  /\ Cardinality(DOMAIN m) = Cardinality(DOMAIN m[0])
  /\ \A i \in DOMAIN m : \A j \in DOMAIN m[0] : (m[i][j] > 0) <=> (i = j)

\* C19 as stated: both scores are 0 for a matrix of equal cells and 1 for a
\* diagonal matrix with d == k (up to the 1e-11 added to the cells).
C19_UniformZeroDiagonalOne ==
  (call \in DciCalls /\ pc = "returned") =>
    /\ EqualCells(matrix) => IsZero(outcome.value.score)
    /\ Diagonal(matrix) => IsOne(outcome.value.score)

\* C19, amended: a score is 0 for a matrix of equal cells and 1 for a
\* diagonal matrix with d == k when its entropy has a base of two or more.
C19_UniformZeroDiagonalOneFromBaseTwo ==
  (call \in DciCalls /\ pc = "returned" /\ EntropyBase >= 2) =>
    /\ EqualCells(matrix) => IsZero(outcome.value.score)
    /\ Diagonal(matrix) => IsOne(outcome.value.score)

\* completeness_score returned 1 for a diagonal matrix of two codes and two
\* factors
C19_Witness ==
  /\ call = "completeness_score"
  /\ pc = "returned"
  /\ Cardinality(DOMAIN matrix) = 2
  /\ Diagonal(matrix)
  /\ IsOne(outcome.value.score)

MaxSquaredOverSum(row) ==
  LET top == CHOOSE x \in {row[j] : j \in DOMAIN row} : \A y \in {row[j] : j \in DOMAIN row} : x >= y
  IN Rat(top * top, RowSum(row))

RECURSIVE RatSum(_, _)
\* the sum of the rationals f[x], x in S
RatSum(S, f) ==
  IF S = {} THEN Rat(0, 1)
  ELSE LET x == CHOOSE y \in S : TRUE
       IN RatAdd(f[x], RatSum(S \ {x}, f))

\* the mean over the rows of m of MaxSquaredOverSum
RowsMean(m) ==
  LET total == RatSum(DOMAIN m, [i \in DOMAIN m |-> MaxSquaredOverSum(m[i])])
  IN Rat(total.num, total.den * Cardinality(DOMAIN m))

\* no row and no column of m sums to zero
NoZeroSum(m) ==
  /\ \A i \in DOMAIN m : RowSum(m[i]) # 0
  /\ \A j \in DOMAIN m[0] : RowSum(Transpose(m)[j]) # 0

\* the identity matrix of some size
Identity(m) ==
  /\ DOMAIN m = DOMAIN m[0]
  /\ \A i, j \in DOMAIN m : m[i][j] = IF i = j THEN 1 ELSE 0

\* C22: relative_strength(mat) is the average of the mean over the rows and
\* of the mean over the columns of (largest entry squared over the sum of the
\* entries), wherever these quotients are defined; it is 1 for the identity
\* matrix of every size.
C22_AverageOfAxisScores ==
  (call = "relative_strength" /\ pc = "returned" /\ NoZeroSum(matrix)) =>
    /\ outcome.value.huge = 0
    /\ RatEq(outcome.value.q,
             Rat(RatAdd(RowsMean(matrix), RowsMean(Transpose(matrix))).num,
                 RatAdd(RowsMean(matrix), RowsMean(Transpose(matrix))).den
                   * 2))
    /\ Identity(matrix) => outcome.value.q.num = outcome.value.q.den

\* relative_strength returned for a matrix of two rows and two columns that
\* is not symmetric and whose largest entry of a row is negative
C22_Witness ==
  /\ call = "relative_strength"
  /\ pc = "returned"
  /\ NoZeroSum(matrix)
  /\ Cardinality(DOMAIN matrix) = 2
  /\ Cardinality(DOMAIN matrix[0]) = 2
  /\ matrix[0][1] # matrix[1][0]
  /\ matrix[1][0] = -1
  /\ matrix[1][1] = -1
  /\ outcome.value.q.num # outcome.value.q.den

\* C23: a row or a column whose sum is zero contributes 0 to the mean of
\* its axis, and the score returned is neither NaN nor infinite.
C23_ZeroSumContributesZero ==
  (call = "relative_strength" /\ pc # "called") =>
    /\ outcome.kind = "return"
    /\ \A i \in DOMAIN matrix :
         RowSum(matrix[i]) = 0 =>
           /\ outcome.value.score_y.terms[i].kind = "finite"
           /\ outcome.value.score_y.terms[i].q.num = 0
    /\ \A j \in DOMAIN matrix[0] :
         RowSum(Transpose(matrix)[j]) = 0 =>
           /\ outcome.value.score_x.terms[j].kind = "finite"
           /\ outcome.value.score_x.terms[j].q.num = 0
    /\ outcome.value.score_x.huge < 2
    /\ outcome.value.score_y.huge < 2

\* C24: the label unsupervised_clustering_scores derives for a sample of a
\* 2-D one-hot matrix of factors is the index of the column holding the 1,
\* also when a class column is never hot.
C24_LabelIsHotColumn ==
  (call = "unsupervised_clustering_scores" /\ pc # "called") =>
    \A i \in DOMAIN matrix : matrix[i][factors[i]] = 1

\* C30: mutual_info_gap given exactly one code column fails with an index
\* error when it reads the second-largest row of the mutual information,
\* whatever the number of factors.
C30_SingleCodeIndexError ==
  (call = "mutual_info_gap" /\ pc # "called"
     /\ Cardinality(DOMAIN codes) = 1) =>
    /\ pc = "failed"
    /\ outcome.kind = "raise"
    /\ outcome.exc = "IndexError"
    /\ outcome.msg = IndexMessage

\* mutual_info_gap failed on one code column and MaxFactors factors
C30_Witness ==
  /\ call = "mutual_info_gap"
  /\ pc = "failed"
  /\ Cardinality(DOMAIN codes) = 1
  /\ Cardinality(DOMAIN factors) = MaxFactors
  /\ outcome.exc = "IndexError"

C26_InitializedIsRegistered ==
  /\ [](\A o \in DOMAIN op_name :
          is_initialized[o] =>
            /\ op_name[o] \in DOMAIN ALL_NNOPS
            /\ ALL_NNOPS[op_name[o]] = o)
  /\ [](\A n \in DOMAIN ALL_NNOPS : is_initialized[ALL_NNOPS[n]])
  /\ [][\A n \in DOMAIN ALL_NNOPS :
          /\ n \in DOMAIN ALL_NNOPS'
          /\ ALL_NNOPS'[n] = ALL_NNOPS[n]]_vars

\* C27: after an arg_scope block is left, its body having finished or
\* raised, the stack of scopes is what it was when the block was entered;
\* a block that ends pops the scope it pushed, and the empty scope stays at
\* the bottom.
C27_ScopeStackRestored ==
  call = "arg_scope" =>
    /\ Len(ARGS_SCOPE_STACK) >= 1
    /\ ARGS_SCOPE_STACK[1] = EmptyScope
    /\ last.op \in {"exit", "raise"} => ARGS_SCOPE_STACK = last.args.entered
    /\ last.op = "exit" => last.result = last.args.pushed

\* C28: once an auto_config call has set CONFIG, every later call returns
\* that CONFIG object, whatever its arguments, and leaves CONFIG and
\* RNG_GENERATOR as they are.
C28_ConfigurationWriteOnce ==
  [][(call = "auto_config" /\ CONFIG # NoConfig) =>
       /\ CONFIG' = CONFIG
       /\ RNG_GENERATOR' = RNG_GENERATOR
       /\ calls' # calls =>
            /\ last'.result.exc = "none"
            /\ last'.result.value = CONFIG]_vars

\* auto_config, called with another backend and another seed than the ones
\* CONFIG was set from, returned CONFIG
C28_Witness ==
  /\ call = "auto_config"
  /\ CONFIG # NoConfig
  /\ CONFIG.id < calls
  /\ RNG_GENERATOR.seed = CONFIG.seed
  /\ last.op = "auto_config"
  /\ last.args[1].source = "config"
  /\ last.args[1].backend # CONFIG.backend
  /\ last.args[1].seed # CONFIG.seed
  /\ last.result.value = CONFIG

\* C29: op.T is the same object on every access, op.T.T is op, and at most
\* one transposed op is ever constructed from an op.
C29_TransposeCachedInvolution ==
  /\ [](\A o \in DOMAIN op_name :
          /\ Cardinality(TransposedOf(o)) <= 1
          /\ transpose_ops[o] # None =>
               /\ transpose_ops[o] \in DOMAIN op_name
               /\ transpose_ops[transpose_ops[o]] = o)
  /\ [][\A o \in DOMAIN op_name :
          /\ transpose_ops[o] # None => transpose_ops'[o] = transpose_ops[o]
          /\ (calls' # calls /\ last'.op = "T" /\ last'.self = o) =>
               last'.result = transpose_ops'[o]]_vars

\* op.T.T was read, after op.T had been applied: it is op
C29_Witness ==
  /\ last.op = "T"
  /\ ~IsDense(last.self)
  /\ apply_calls[last.self] > 0
  /\ IsDense(last.result)
  /\ transpose_ops[last.result] = last.self
  /\ transpose_ops[last.self] = last.result

=============================================================================
